---- MODULE Spec2Model ----
(***************************************************************************)
(* The timestep playback controller (FloodTimelineControl) and the parent  *)
(* coordinator (Root) that re-fetches infrastructure data for the timestep *)
(* the controller emits, together with Root's cable flow engine: the      *)
(* animation loop, the particles generated along the power cables and the  *)
(* glow points at the junctions of cables.                                 *)
(*                                                                         *)
(* React semantics used throughout: a handler sees the state of the latest *)
(* render; an interval callback keeps the closure of the render in which   *)
(* it was created; after a render the passive effects whose dependencies   *)
(* changed run in source order, each with the values of that render; an    *)
(* effect's cleanup runs before the effect re-runs and at unmount; a state *)
(* setter called with an Object.is-equal value causes no render.           *)
(***************************************************************************)
EXTENDS Integers, Sequences, FiniteSets

(* ------------------------------ bounds -------------------------------- *)

\* Longest timestep sequence the parent supplies.
MaxLen == 2

\* Number of setInterval calls a behaviour may make (timer ids are never reused).
MaxTimers == 2

\* Number of infrastructure fetches in flight that are followed to their answer.
MaxInFlight == 2

\* Hours of the synthesized default day. The source generates 24 (48 half-hour
\* entries); the model generates the first MaxHour of them, which keeps the
\* default sequence non-empty, and longer than some supplied sequence.
MaxHour == 1

\* Animation frames followed in the specifications where the value of the frame
\* plays no part (the source's counter runs through the whole FrameCycle).
MaxFrame == 1

\* Number of cables in a payload.
MaxCables == 3

(* ------------------------- program constants -------------------------- *)

MinutesPerHour == 60

MinuteStep == 30

DefaultBaseDate == 20221008

FloodBaseDate == 20221024

\* setAnimationFrame(prev => (prev + 1) % 360)
FrameCycle == 360

(* ------------------------------ values -------------------------------- *)

\* useState(null): no interval handle, no timestep, no data.
NoInterval == 0

NoTimestep == [time |-> [prefixed |-> FALSE, date |-> 0, hhmm |-> 0 - 1], display |-> 0 - 1]

\* One entry of generateDefaultTimesteps: time `${baseDate}_${HH}${MM}00`, display `HH:MM`.
DefaultEntry(hour, minute) ==
    [time |-> [prefixed |-> FALSE, date |-> DefaultBaseDate, hhmm |-> hour * 100 + minute],
     display |-> hour * 100 + minute]

SlotsPerHour == (MinutesPerHour + MinuteStep - 1) \div MinuteStep

\* The nested loops over hour and minute, in push order.
generateDefaultTimesteps ==
    [k \in 1..(MaxHour * SlotsPerHour) |->
        DefaultEntry((k - 1) \div SlotsPerHour, ((k - 1) % SlotsPerHour) * MinuteStep)]

\* A flood folder `waterdepth_YYYYMMDD_HHMMSS` turned into a timestep by Root.
FloodEntry(hour) ==
    [time |-> [prefixed |-> TRUE, date |-> FloodBaseDate, hhmm |-> hour * 100],
     display |-> hour * 100]

\* The sorted list Root builds from the first n folders.
FloodSeq(n) == [k \in 1..n |-> FloodEntry(k - 1)]

\* The hardcoded single-entry fallback of loadFloodTimestamps.
FallbackSeq == <<FloodEntry(0)>>

(* ------------------------------- state -------------------------------- *)

VARIABLES
    isPlaying,            \* FloodTimelineControl: useState(false)
    currentTimestep,      \* FloodTimelineControl: useState(0), the current index
    playInterval,         \* FloodTimelineControl: useState(null), the interval handle
    availableTimesteps,   \* the prop, Root's floodTimestamps
    mounted,              \* the view is mounted
    activeTimers,         \* handles of the intervals the browser still runs
    timerLen,             \* per live handle: timesteps.length as captured by its callback
    nextTimerId,          \* the handle the next setInterval returns
    clearCalls,           \* per handle: how many clearInterval calls named it
    rootCurrentTimestep,  \* Root: useState(null), the Timestep last received
    rootIsElem,           \* rootCurrentTimestep is an object of the current floodTimestamps array
    inflight,             \* loadHierarchicalInfrastructureData calls awaiting a response, in issue order
    infrastructureData,   \* Root: useState(null), the applied payload
    appliedStale,         \* the applied payload came from a call overtaken by a later one
    animationFrame,       \* Root: useState(0)
    animationInterval,    \* the interval of Root's animation loop is running
    layerVisibility,      \* Root: useState({..., power: true, ...}), the power flag
    hierarchicalPowerCables, \* infrastructureData.hierarchical_power_cables of the applied payload
    powerParticles,       \* Root: useState([])
    lastOp,               \* the operation that made the last step
    wasPlaying,           \* isPlaying as the last step found it
    emitted,              \* how many times the last step called onTimestepChange
    issued                \* how many infrastructure fetches the last step started

ctlVars == <<isPlaying, currentTimestep, playInterval, availableTimesteps, mounted>>

timerVars == <<activeTimers, timerLen, nextTimerId, clearCalls>>

rootVars == <<rootCurrentTimestep, rootIsElem, inflight, infrastructureData, appliedStale>>

histVars == <<lastOp, wasPlaying, emitted, issued>>

flowVars == <<layerVisibility, hierarchicalPowerCables, powerParticles>>

vars == <<ctlVars, timerVars, rootVars, histVars, animationFrame, animationInterval, flowVars>>

TimerIds == 1..MaxTimers

NoData == [kind |-> "none", time |-> NoTimestep.time]

(* --------------------- FloodTimelineControl: pieces -------------------- *)

\* const timesteps = availableTimesteps.length > 0 ? availableTimesteps : generateDefaultTimesteps()
Timesteps(avail) == IF Len(avail) > 0 THEN avail ELSE generateDefaultTimesteps

\* timesteps[i] is defined (truthy) exactly for 0 <= i < length.
HasEntry(avail, i) == 0 <= i /\ i < Len(Timesteps(avail))

\* timesteps[i], zero-based as in the source.
EntryAt(avail, i) == Timesteps(avail)[i + 1]

\* The interval callback's updater: prev => (prev + 1) % timesteps.length
NextIndex(prev, len) == (prev + 1) % len

\* Mutant of ClearInterval: the interval goes on running.
ClearIntervalMissed(T, id) ==
    [active |-> T.active,
     calls |-> [T.calls EXCEPT ![id] = @ + 1]]

\* clearInterval(id): the browser drops the interval; clearing a dead handle is allowed.
ClearInterval(T, id) ==
    [active |-> T.active \ {id},
     calls |-> [T.calls EXCEPT ![id] = @ + 1]]

\* if (playInterval) { clearInterval(playInterval); setPlayInterval(null); } -- the timer part
StopTimer(T, pi) == IF pi # NoInterval THEN ClearInterval(T, pi) ELSE T

\* Mutant of StoppedHandle: setPlayInterval(null) forgotten.
StoppedHandleKept(pi) == pi

\* ... and the handle part of the same statement.
StoppedHandle(pi) == IF pi # NoInterval THEN NoInterval ELSE pi

\* The cleanup of the [playInterval] effect, holding the handle of the render that made it.
CleanupEffect(T, pi) == IF pi # NoInterval THEN ClearInterval(T, pi) ELSE T

\* The cleanup runs when the next render's playInterval differs, before the effect re-runs.
AfterHandleChange(T, old, new) == IF old # new THEN CleanupEffect(T, old) ELSE T

\* Mutant of ResetIndex: the reset effect left out.
ResetIndexKept(avail, idx) == idx

\* The reset effect: if (availableTimesteps.length > 0) setCurrentTimestep(0)
ResetIndex(avail, idx) == IF Len(avail) > 0 THEN 0 ELSE idx

\* Mutant of SelectedIndex: a one-based index taken for a zero-based one.
SelectedIndexOneBased(index) == index + 1

\* handleTimestepClick: setCurrentTimestep(index)
SelectedIndex(index) == index

(* ------------------------------ Root: pieces --------------------------- *)

\* timeStr.startsWith('waterdepth_') ? timeStr.substring('waterdepth_'.length) : timeStr
InfrastructureTimeStr(time) == [time EXCEPT !.prefixed = FALSE]

\* One run of the [currentTimestep] effect: the call and its first fetch.
NewCall(cur) ==
    [stage |-> IF cur = NoTimestep THEN "base0" ELSE "ts",
     time |-> InfrastructureTimeStr(cur.time),
     overtaken |-> FALSE]

\* Root's state as a handler's effects see and change it.
RootNow ==
    [cur |-> rootCurrentTimestep, isElem |-> rootIsElem, inflight |-> inflight,
     emitted |-> 0, issued |-> 0]

\* setCurrentTimestep(ts) in Root bails out when ts is the very object it holds.
SameObject(R, ts, elem) == elem /\ R.isElem /\ R.cur = ts

\* Root renders with a new currentTimestep: the [currentTimestep] effect starts one call.
RootSet(R, ts, elem) ==
    IF SameObject(R, ts, elem) THEN R
    ELSE [R EXCEPT !.cur = ts, !.isElem = elem,
                   !.inflight = Append(@, NewCall(ts)),
                   !.issued = @ + 1]

\* onTimestepChange(ts) = handleTimestepChange(ts)
HandleTimestepChange(R, ts, elem) ==
    RootSet([R EXCEPT !.emitted = @ + 1], ts, elem)

\* The notify effect: if (onTimestepChange && timesteps[currentTimestep]) onTimestepChange(...)
NotifyEffect(R, avail, idx) ==
    IF HasEntry(avail, idx)
    THEN HandleTimestepChange(R, EntryAt(avail, idx), Len(avail) > 0)
    ELSE R

\* After a render of the controller the notify effect runs when one of its
\* dependencies [currentTimestep, onTimestepChange, timesteps] changed; with an
\* empty prop `timesteps` is a new array on every render.
AfterRender(R, avail, idx, depsChanged) ==
    IF depsChanged \/ Len(avail) = 0 THEN NotifyEffect(R, avail, idx) ELSE R

\* The calls followed to their answer: the MaxInFlight issued last. A fetch may
\* stay pending for ever, and the older calls are taken to do so.
Newest(q) ==
    IF Len(q) <= MaxInFlight THEN q
    ELSE [i \in 1..MaxInFlight |-> q[i + Len(q) - MaxInFlight]]

\* What a step leaves in Root and in the step's record.
Commit(R, op) ==
    /\ rootCurrentTimestep' = R.cur
    /\ rootIsElem' = R.isElem
    /\ inflight' = Newest(R.inflight)
    /\ emitted' = R.emitted
    /\ issued' = R.issued
    /\ lastOp' = op
    /\ wasPlaying' = isPlaying
    /\ UNCHANGED <<infrastructureData, appliedStale, flowVars>>

\* The browser's timers after a step; started is the handle the step created (or
\* NoInterval) and len the timesteps.length its callback closed over.
SetTimers(T, started, len) ==
    /\ activeTimers' = T.active
    /\ clearCalls' = T.calls
    /\ timerLen' = [id \in TimerIds |->
                        IF id \notin T.active THEN 0
                        ELSE IF id = started THEN len
                        ELSE timerLen[id]]

TimersNow == [active |-> activeTimers, calls |-> clearCalls]

(* ----------------------- Root: cable flow pieces ----------------------- *)

\* const particleCount = 3
ParticlesPerSegment == 3

\* position: [coord[0], coord[1], 500]
JunctionHeight == 500

\* Math.min(0.2 + point.count * 0.1, 0.8), in tenths
IntensityBase == 2

IntensityPerConnection == 1

IntensityCap == 8

\* 2 * Math.PI, animationFrame * 0.02 and Math.sin(...) * 0.8 + 0.2, in thousandths
TwoPi == 6283

TimeScale == 20

AlphaSpan == 800

AlphaFloor == 200

\* The fraction t runs over 0..Unit thousandths.
Unit == 1000

Statuses == {"operational", "warning", "down"}

getStatusColor(status) ==
    CASE status = "down" -> <<255, 0, 0>>
      [] status \in {"warning", "high_load"} -> <<255, 255, 0>>
      [] OTHER -> <<0, 255, 0>>

\* Coordinates [longitude, latitude] in units of 10^-7 degree, around the view's
\* centre (147.3521, -35.1276). CoordA and CoordA2 differ but agree to 6 decimals.
CoordA == <<1473521000, 0 - 351276000>>

CoordA2 == <<1473521004, 0 - 351275996>>

CoordB == <<1473521012, 0 - 351276000>>

\* line.geometry.coordinates of the cables a payload may hold: no point, one
\* point, two points, and three points on one junction.
CableShapes ==
    {<<>>, <<CoordA>>, <<CoordA, CoordB>>, <<CoordB, CoordA2>>, <<CoordA, CoordA2, CoordA>>}

\* One feature of hierarchical_power_cables.features, as far as Root reads it.
Line(status, coordinates) == [status |-> status, coordinates |-> coordinates]

\* infrastructureData.hierarchical_power_cables is missing (or there is no payload).
NoCables == [present |-> FALSE, features |-> <<>>]

PowerCables(features) == [present |-> TRUE, features |-> features]

\* Mutant of createArcPath: the sagging middle points left out.
createArcPathStraight(coordinates) ==
    [k \in 1..Len(coordinates) |->
        [kind |-> "vertex", from |-> coordinates[k], to |-> coordinates[k]]]

\* createArcPath: fewer than 2 points are returned as they are; otherwise every
\* point but the last is followed by the sagging middle of its segment. The
\* heights are not kept: a path point is a vertex or the middle of two vertices.
createArcPath(coordinates) ==
    IF Len(coordinates) < 2
    THEN [k \in 1..Len(coordinates) |->
            [kind |-> "raw", from |-> coordinates[k], to |-> coordinates[k]]]
    ELSE [k \in 1..(2 * Len(coordinates) - 1) |->
            IF k % 2 = 1
            THEN [kind |-> "vertex", from |-> coordinates[(k + 1) \div 2],
                                     to |-> coordinates[(k + 1) \div 2]]
            ELSE [kind |-> "mid", from |-> coordinates[k \div 2],
                                  to |-> coordinates[k \div 2 + 1]]]

\* phase: (j / particleCount) * 2 * Math.PI
Phase(j) == (j * TwoPi) \div ParticlesPerSegment

\* The particles.push({...}) of segment i, particle j of line lineIndex.
Particle(lineIndex, i, j, arcPath, status) ==
    [id |-> <<lineIndex, i, j>>,
     startPoint |-> arcPath[i + 1],
     endPoint |-> arcPath[i + 2],
     lineIndex |-> lineIndex,
     segmentIndex |-> i,
     particleIndex |-> j,
     phase |-> Phase(j),
     color |-> getStatusColor(status)]

\* The body of powerLines.features.forEach: nothing for a down cable, else the
\* two nested loops over the segments of the arc path and the particles of each.
LineParticles(line, lineIndex) ==
    IF line.status = "down" THEN <<>>
    ELSE LET arcPath == createArcPath(line.coordinates)
             segments == IF Len(arcPath) > 0 THEN Len(arcPath) - 1 ELSE 0
         IN [k \in 1..(segments * ParticlesPerSegment) |->
                Particle(lineIndex, (k - 1) \div ParticlesPerSegment,
                         (k - 1) % ParticlesPerSegment, arcPath, line.status)]

RECURSIVE ParticlesFrom(_, _)
ParticlesFrom(features, lineIndex) ==
    IF lineIndex >= Len(features) THEN <<>>
    ELSE LineParticles(features[lineIndex + 1], lineIndex)
            \o ParticlesFrom(features, lineIndex + 1)

generateParticles(powerLines) ==
    IF ~powerLines.present THEN <<>> ELSE ParticlesFrom(powerLines.features, 0)

\* Mutant of ParticleEffect: the visibility flag is not looked at.
ParticleEffectAlways(powerLines, visibility) == generateParticles(powerLines)

\* The particle effect: what setPowerParticles receives.
ParticleEffect(powerLines, visibility) ==
    IF powerLines.present /\ visibility.power THEN generateParticles(powerLines) ELSE <<>>

\* Mutant of ToFixed6: one decimal fewer.
ToFixed5(v) ==
    [negative |-> v < 0, digits |-> ((IF v < 0 THEN 0 - v ELSE v) + 50) \div 100]

\* Number.prototype.toFixed(6) of a value given in units of 10^-7: the sign, and
\* the magnitude rounded to the nearest 10^-6.
ToFixed6(v) ==
    [negative |-> v < 0, digits |-> ((IF v < 0 THEN 0 - v ELSE v) + 5) \div 10]

\* const key = `${coord[0].toFixed(6)},${coord[1].toFixed(6)}`
JunctionKey(coord) == <<ToFixed6(coord[1]), ToFixed6(coord[2])>>

\* Mutant of AggregateStatus: the status of the cable folded in last.
AggregateStatusLatest(existing, status) == status

\* The two branches that update existingPoint.status.
AggregateStatus(existing, status) ==
    IF status = "down" /\ existing # "down" THEN "down"
    ELSE IF status = "warning" /\ existing = "operational" THEN "warning"
    ELSE existing

\* junctionPoints.get(key).count++
Connections(count) == count + 1

\* junctionPoints is a Map: its entries in insertion order, 0 for a missing key.
EntryOfKey(junctionPoints, key) ==
    IF \E i \in 1..Len(junctionPoints) : junctionPoints[i].key = key
    THEN CHOOSE i \in 1..Len(junctionPoints) : junctionPoints[i].key = key
    ELSE 0

\* The body of coordinates.forEach for one coordinate of a line with this status.
FoldCoordinate(junctionPoints, coord, status) ==
    LET key == JunctionKey(coord)
        i == EntryOfKey(junctionPoints, key)
    IN IF i = 0
       THEN Append(junctionPoints,
                   [key |-> key,
                    position |-> <<coord[1], coord[2], JunctionHeight>>,
                    count |-> Connections(0),
                    color |-> getStatusColor(status),
                    status |-> status])
       ELSE LET existing == junctionPoints[i]
                next == AggregateStatus(existing.status, status)
            IN [junctionPoints EXCEPT ![i] =
                   [existing EXCEPT !.status = next,
                                    !.color = IF next # existing.status
                                              THEN getStatusColor(status) ELSE @,
                                    !.count = Connections(@)]]

RECURSIVE FoldLine(_, _, _, _)
FoldLine(junctionPoints, line, coordIndex, upTo) ==
    IF coordIndex >= upTo THEN junctionPoints
    ELSE FoldLine(FoldCoordinate(junctionPoints, line.coordinates[coordIndex + 1], line.status),
                  line, coordIndex + 1, upTo)

\* The first forEach of getElectricalArcs over the lines lineIndex, lineIndex + 1, ...
RECURSIVE FoldLines(_, _, _)
FoldLines(junctionPoints, features, lineIndex) ==
    IF lineIndex >= Len(features) THEN junctionPoints
    ELSE FoldLines(FoldLine(junctionPoints, features[lineIndex + 1], 0,
                            Len(features[lineIndex + 1].coordinates)),
                   features, lineIndex + 1)

JunctionPoints(powerLines) == FoldLines(<<>>, powerLines.features, 0)

\* const arcIntensity = Math.min(0.2 + point.count * 0.1, 0.8), in tenths
ArcIntensity(count) ==
    IF IntensityBase + count * IntensityPerConnection < IntensityCap
    THEN IntensityBase + count * IntensityPerConnection
    ELSE IntensityCap

\* if (point.count > 1 && point.status !== 'down')
EmitsArc(point) == point.count > 1 /\ point.status # "down"

Arc(point) ==
    [position |-> point.position, intensity |-> ArcIntensity(point.count), color |-> point.color]

RECURSIVE ArcsFrom(_, _)
ArcsFrom(junctionPoints, i) ==
    IF i > Len(junctionPoints) THEN <<>>
    ELSE (IF EmitsArc(junctionPoints[i]) THEN <<Arc(junctionPoints[i])>> ELSE <<>>)
            \o ArcsFrom(junctionPoints, i + 1)

getElectricalArcs(powerLines) ==
    IF ~powerLines.present THEN <<>> ELSE ArcsFrom(JunctionPoints(powerLines), 1)

\* Math.sin(t * Math.PI) for t in thousandths, in thousandths, by Bhaskara's
\* rational approximation 16 t (1 - t) / (5 - 4 t (1 - t)): exact at t = 0, 1/2
\* and 1, within 2 thousandths elsewhere.
SinPi(t) == (16 * t * (Unit - t)) \div (5 * Unit - (4 * t * (Unit - t)) \div Unit)

\* const t = ((timeScale + particle.phase) % (2 * Math.PI)) / (2 * Math.PI)
FractionAt(frame, phase) == (((frame * TimeScale + phase) % TwoPi) * Unit) \div TwoPi

\* Mutant of Alpha: the floor of the fade left out.
AlphaWithoutFloor(t) == SinPi(t)

\* alpha: Math.sin(t * Math.PI) * 0.8 + 0.2
Alpha(t) == (SinPi(t) * AlphaSpan) \div Unit + AlphaFloor

\* getCurrentParticlePositions: each particle with its fraction t (which places
\* it between its two points) and its alpha.
getCurrentParticlePositions(particles, frame) ==
    [k \in 1..Len(particles) |->
        [id |-> particles[k].id,
         t |-> FractionAt(frame, particles[k].phase),
         color |-> particles[k].color,
         alpha |-> Alpha(FractionAt(frame, particles[k].phase))]]

(* ------------------------------- Init --------------------------------- *)

\* The state after the first commit of createRoot(...).render(<Root />): the
\* controller is Idle at index 0 on the default sequence (floodTimestamps is
\* still []); its notify effect has emitted the default entry 0; Root's
\* [currentTimestep] effect has run once with null (the base payload) and once
\* with the emitted entry.
Init ==
    /\ isPlaying = FALSE
    /\ currentTimestep = 0
    /\ playInterval = NoInterval
    /\ availableTimesteps = <<>>
    /\ mounted = TRUE
    /\ activeTimers = {}
    /\ timerLen = [id \in TimerIds |-> 0]
    /\ nextTimerId = 1
    /\ clearCalls = [id \in TimerIds |-> 0]
    /\ rootCurrentTimestep = EntryAt(<<>>, 0)
    /\ rootIsElem = FALSE
    /\ inflight = <<NewCall(NoTimestep), NewCall(EntryAt(<<>>, 0))>>
    /\ infrastructureData = NoData
    /\ appliedStale = FALSE
    /\ lastOp = "mount"
    /\ wasPlaying = FALSE
    /\ emitted = 1
    /\ issued = 2
    /\ animationFrame = 0
    /\ animationInterval = TRUE
    /\ layerVisibility = [power |-> TRUE]
    /\ hierarchicalPowerCables = NoCables
    /\ powerParticles = <<>>

(* ----------------------- FloodTimelineControl: actions ----------------- *)

\* handlePlay, pause branch, and the render that follows it.
HandlePlayPause ==
    /\ mounted
    /\ isPlaying
    /\ LET T1 == StopTimer(TimersNow, playInterval)
           pi == StoppedHandle(playInterval)
           T2 == AfterHandleChange(T1, playInterval, pi)
       IN /\ isPlaying' = FALSE
          /\ playInterval' = pi
          /\ SetTimers(T2, NoInterval, 0)
          /\ Commit(AfterRender(RootNow, availableTimesteps, currentTimestep, FALSE), "handlePlay")
    /\ UNCHANGED <<currentTimestep, availableTimesteps, mounted, nextTimerId, animationFrame, animationInterval>>

\* handlePlay, play branch, and the render that follows it.
HandlePlayStart ==
    /\ mounted
    /\ ~isPlaying
    /\ nextTimerId <= MaxTimers
    /\ LET id == nextTimerId
           T1 == [active |-> activeTimers \cup {id}, calls |-> clearCalls]
           T2 == AfterHandleChange(T1, playInterval, id)
       IN /\ isPlaying' = TRUE
          /\ playInterval' = id
          /\ nextTimerId' = id + 1
          /\ SetTimers(T2, id, Len(Timesteps(availableTimesteps)))
          /\ Commit(AfterRender(RootNow, availableTimesteps, currentTimestep, FALSE), "handlePlay")
    /\ UNCHANGED <<currentTimestep, availableTimesteps, mounted, animationFrame, animationInterval>>

\* One firing of the interval callback of handle id, and the render that follows it.
\* A state update on an unmounted component is dropped.
Tick(id) ==
    /\ id \in activeTimers
    /\ LET next == IF mounted THEN NextIndex(currentTimestep, timerLen[id]) ELSE currentTimestep
           R == IF next # currentTimestep
                THEN AfterRender(RootNow, availableTimesteps, next, TRUE)
                ELSE RootNow
       IN /\ currentTimestep' = next
          /\ Commit(R, "tick")
    /\ UNCHANGED <<isPlaying, playInterval, availableTimesteps, mounted, timerVars, animationFrame, animationInterval>>

\* handleTimestepClick(index) with any index, and the render that follows it.
HandleTimestepClick(index) ==
    /\ mounted
    /\ LET next == SelectedIndex(index)
           T1 == IF isPlaying THEN StopTimer(TimersNow, playInterval) ELSE TimersNow
           pi == IF isPlaying THEN StoppedHandle(playInterval) ELSE playInterval
           T2 == AfterHandleChange(T1, playInterval, pi)
           rendered == next # currentTimestep \/ isPlaying
           R == IF rendered
                THEN AfterRender(RootNow, availableTimesteps, next, next # currentTimestep)
                ELSE RootNow
       IN /\ currentTimestep' = next
          /\ isPlaying' = FALSE
          /\ playInterval' = pi
          /\ SetTimers(T2, NoInterval, 0)
          /\ Commit(R, "click")
    /\ UNCHANGED <<availableTimesteps, mounted, nextTimerId, animationFrame, animationInterval>>

\* A click on one of the dots the controller renders: timesteps.map((timestep, index) => ...)
ClickDot ==
    \E index \in 0..(Len(Timesteps(availableTimesteps)) - 1) : HandleTimestepClick(index)

\* The controller after its prop changed to seq: the reset effect and the notify
\* effect run with the index of that render, then the render the reset caused.
AfterNewTimesteps(R, seq, idx) ==
    LET R1 == NotifyEffect(R, seq, idx)
        next == ResetIndex(seq, idx)
    IN IF next # idx THEN AfterRender(R1, seq, next, TRUE) ELSE R1

\* loadFloodTimestamps resolves with n folders: setFloodTimestamps(timesteps) and,
\* if there are any, setCurrentTimestep(timesteps[0]) (the closure's
\* currentTimestep is the null of the first render), in one render of Root.
\* Root loads the list once; the controller takes any number of new props, and
\* the action may repeat.
LoadFloodTimestamps(n) ==
    /\ mounted
    /\ LET seq == FloodSeq(n)
           R0 == [RootNow EXCEPT !.isElem = FALSE]
           R1 == IF Len(seq) > 0 THEN RootSet(R0, seq[1], TRUE) ELSE R0
       IN /\ availableTimesteps' = seq
          /\ currentTimestep' = ResetIndex(seq, currentTimestep)
          /\ Commit(AfterNewTimesteps(R1, seq, currentTimestep), "setTimesteps")
    /\ UNCHANGED <<isPlaying, playInterval, mounted, timerVars, animationFrame, animationInterval>>

\* loadFloodTimestamps fails: setFloodTimestamps([the hardcoded entry]) alone.
LoadFloodTimestampsFallback ==
    /\ mounted
    /\ LET seq == FallbackSeq
           R0 == [RootNow EXCEPT !.isElem = FALSE]
       IN /\ availableTimesteps' = seq
          /\ currentTimestep' = ResetIndex(seq, currentTimestep)
          /\ Commit(AfterNewTimesteps(R0, seq, currentTimestep), "setTimesteps")
    /\ UNCHANGED <<isPlaying, playInterval, mounted, timerVars, animationFrame, animationInterval>>

\* Root renders again for a reason of its own (the animation frame, a payload
\* applied), and the controller with it. With a non-empty prop none of the
\* controller's effect dependencies changes and the render leaves no trace.
Render ==
    /\ mounted
    /\ Len(availableTimesteps) = 0
    /\ Commit(AfterRender(RootNow, availableTimesteps, currentTimestep, FALSE), "render")
    /\ UNCHANGED <<ctlVars, timerVars, animationFrame, animationInterval>>

\* Mutant of AnimationCleanup: the animation effect returns no cleanup.
AnimationCleanupMissing(running) == running

\* return () => clearInterval(interval) of the animation effect
AnimationCleanup(running) == FALSE

\* The view is torn down: the cleanups of the controller's [playInterval] effect
\* and of Root's animation effect run.
Unmount ==
    /\ mounted
    /\ mounted' = FALSE
    /\ SetTimers(CleanupEffect(TimersNow, playInterval), NoInterval, 0)
    /\ animationInterval' = AnimationCleanup(animationInterval)
    /\ Commit(RootNow, "unmount")
    /\ UNCHANGED <<isPlaying, currentTimestep, playInterval, availableTimesteps, nextTimerId,
                   animationFrame>>

(* ------------------- Root: loadHierarchicalInfrastructureData ---------- *)

BasePayload == [kind |-> "base", time |-> NoTimestep.time]

TimePayload(time) == [kind |-> "ts", time |-> time]

\* What response.json() gives for a non-OK response whose body is JSON.
ErrorBody == [kind |-> "error", time |-> NoTimestep.time]

\* The cables of the payloads the server holds: the base payload has every cable
\* operational; the payload of a timestep has one cable in warning (the first
\* timestep of a day) or down (the others); an error body has no cables.
PayloadCables(payload) ==
    CASE payload.kind = "base" ->
            PowerCables(<<Line("operational", <<CoordA, CoordB>>),
                          Line("operational", <<CoordB, CoordA2>>)>>)
      [] payload.kind = "ts" ->
            PowerCables(<<Line(IF payload.time.hhmm = 0 THEN "warning" ELSE "down",
                               <<CoordA, CoordB>>),
                          Line("operational", <<CoordB, CoordA2>>)>>)
      [] OTHER -> NoCables

\* ok: a 2xx response with the expected JSON; notOk: another status, its body
\* JSON; throw: a network error, a body that does not parse, a payload without
\* the fields the code reads.
Outcomes == {"ok", "notOk", "throw"}

\* Where a call goes when the fetch it awaits answers:
\*   ts    : the time-indexed fetch; !response.ok -> the base fetch of that branch;
\*           a throw (network, parse, malformed payload) -> the catch block's base fetch
\*   base0 : the base fetch made while currentTimestep is null
\*   base1 : the base fetch of the !response.ok branch (a throw lands in the catch block)
\*   base2 : the base fetch of the catch block (a throw there is only logged)
\* A base response is never tested for ok: whatever its body parses to is applied.
AfterResponse(stage, outcome) ==
    CASE stage = "ts" /\ outcome = "ok" -> "applyTime"
      [] stage = "ts" /\ outcome = "notOk" -> "base1"
      [] stage = "ts" /\ outcome = "throw" -> "base2"
      [] stage \in {"base0", "base1"} /\ outcome = "ok" -> "applyBase"
      [] stage \in {"base0", "base1"} /\ outcome = "throw" -> "base2"
      [] stage \in {"base0", "base1", "base2"} /\ outcome = "notOk" -> "applyBody"
      [] stage = "base2" /\ outcome = "ok" -> "applyBase"
      [] stage = "base2" /\ outcome = "throw" -> "drop"
      [] OTHER -> "none"

\* Mutant of SetInfrastructureData: the answer of an overtaken call is ignored.
SetInfrastructureDataSequenced(held, payload, overtaken) ==
    IF overtaken THEN held ELSE payload

\* setInfrastructureData(data): whatever is held is replaced; the call's age is not looked at.
SetInfrastructureData(held, payload, overtaken) == payload

\* A call that has gone on to a base fetch no longer uses its timeStr.
BaseCall(stage, overtaken) ==
    [stage |-> stage, time |-> NoTimestep.time, overtaken |-> overtaken]

RemoveAt(q, k) == [i \in 1..(Len(q) - 1) |-> IF i < k THEN q[i] ELSE q[i + 1]]

\* The calls issued before call k have been overtaken once call k has applied its payload.
MarkOvertaken(q, k) == [i \in 1..Len(q) |-> IF i < k THEN [q[i] EXCEPT !.overtaken = TRUE] ELSE q[i]]

\* The fetch awaited by the k-th call in flight answers. An applied payload
\* makes Root render: the particle effect runs, and so does the controller's
\* notify effect when its prop is empty.
Respond(k, outcome) ==
    /\ k \in 1..Len(inflight)
    /\ LET f == inflight[k]
           to == AfterResponse(f.stage, outcome)
           payload == CASE to = "applyTime" -> TimePayload(f.time)
                        [] to = "applyBody" -> ErrorBody
                        [] OTHER -> BasePayload
           applies == to \in {"applyTime", "applyBase", "applyBody"} /\ mounted
           rest == RemoveAt(IF applies THEN MarkOvertaken(inflight, k) ELSE inflight, k)
           R0 == [RootNow EXCEPT !.inflight = rest]
           R == IF applies
                THEN AfterRender(R0, availableTimesteps, currentTimestep, FALSE)
                ELSE R0
       IN /\ to # "none"
          /\ IF to \in {"base1", "base2"}
             THEN /\ inflight' = [inflight EXCEPT ![k] = BaseCall(to, f.overtaken)]
                  /\ emitted' = 0
                  /\ issued' = 0
                  /\ UNCHANGED <<infrastructureData, appliedStale, rootCurrentTimestep,
                                 rootIsElem, hierarchicalPowerCables, powerParticles>>
             ELSE /\ inflight' = Newest(R.inflight)
                  /\ rootCurrentTimestep' = R.cur
                  /\ rootIsElem' = R.isElem
                  /\ emitted' = R.emitted
                  /\ issued' = R.issued
                  /\ infrastructureData' =
                        IF applies THEN SetInfrastructureData(infrastructureData, payload, f.overtaken)
                        ELSE infrastructureData
                  /\ appliedStale' = IF applies THEN f.overtaken ELSE appliedStale
                  /\ hierarchicalPowerCables' =
                        IF applies THEN PayloadCables(infrastructureData')
                        ELSE hierarchicalPowerCables
                  /\ powerParticles' =
                        IF applies THEN ParticleEffect(hierarchicalPowerCables', layerVisibility)
                        ELSE powerParticles
    /\ lastOp' = "respond"
    /\ wasPlaying' = isPlaying
    /\ UNCHANGED <<ctlVars, timerVars, animationFrame, animationInterval, layerVisibility>>

(* ------------------- Root: animation loop and layer panel -------------- *)

\* setAnimationFrame(prev => (prev + 1) % 360)
NextFrame(prev) == (prev + 1) % FrameCycle

\* One firing of the animation interval, and the render that follows it. A state
\* update on an unmounted component is dropped.
Animate ==
    /\ animationInterval
    /\ animationFrame' = IF mounted THEN NextFrame(animationFrame) ELSE animationFrame
    /\ Commit(IF mounted
              THEN AfterRender(RootNow, availableTimesteps, currentTimestep, FALSE)
              ELSE RootNow, "animate")
    /\ UNCHANGED <<ctlVars, timerVars, animationInterval>>

\* The first MaxFrame firings of the animation interval.
AnimateFirst == animationFrame < MaxFrame /\ Animate

\* handleVisibilityChange('power', isVisible), and the render that follows it:
\* the particle effect runs when the flag changed.
HandleVisibilityChange(isVisible) ==
    /\ mounted
    /\ layerVisibility' = [layerVisibility EXCEPT !.power = isVisible]
    /\ powerParticles' =
          IF isVisible # layerVisibility.power
          THEN ParticleEffect(hierarchicalPowerCables, layerVisibility')
          ELSE powerParticles
    /\ LET R == AfterRender(RootNow, availableTimesteps, currentTimestep, FALSE)
       IN /\ rootCurrentTimestep' = R.cur
          /\ rootIsElem' = R.isElem
          /\ inflight' = Newest(R.inflight)
          /\ emitted' = R.emitted
          /\ issued' = R.issued
    /\ lastOp' = "visibility"
    /\ wasPlaying' = isPlaying
    /\ UNCHANGED <<ctlVars, timerVars, animationFrame, animationInterval,
                   infrastructureData, appliedStale, hierarchicalPowerCables>>

(* --------------------------- specifications ---------------------------- *)

\* A fetch in flight answers, in any order and with any outcome.
RespondAny == \E k \in 1..MaxInFlight, outcome \in Outcomes : Respond(k, outcome)

\* The controller and Root's reaction to what it emits.
NextCtl ==
    \/ HandlePlayPause
    \/ HandlePlayStart
    \/ \E id \in TimerIds : Tick(id)
    \/ ClickDot
    \/ \E n \in 0..MaxLen : LoadFloodTimestamps(n)
    \/ LoadFloodTimestampsFallback
    \/ Render
    \/ Unmount

\* The whole view.
Next == NextCtl \/ RespondAny

Spec == Init /\ [][Next]_vars

\* The controller while no fetch answers. No controller action reads the calls
\* in flight or the applied payload, and an answer changes neither the
\* controller's state nor the timers, so the controller behaves under Spec as
\* it does here.
SpecCtl == Init /\ [][NextCtl]_vars

\* Root's fetches, driven by selections, sequence loads (the longest list, or the
\* fallback entry) and renders alone.
NextFetch ==
    \/ ClickDot
    \/ LoadFloodTimestamps(MaxLen)
    \/ LoadFloodTimestampsFallback
    \/ Render
    \/ RespondAny

SpecFetch == Init /\ [][NextFetch]_vars

\* handleTimestepClick called as the operation selectIndex(i) with an index the
\* caller did not validate: one past the last entry.
SelectIndexUnvalidated ==
    HandleTimestepClick(Len(Timesteps(availableTimesteps)))

NextApi == Next \/ SelectIndexUnvalidated

SpecApi == Init /\ [][NextApi]_vars

\* The controller and Root's animation loop, while no fetch answers.
NextView == NextCtl \/ AnimateFirst

SpecView == Init /\ [][NextView]_vars

\* The lists of at most MaxCables cables a payload may hold.
FeatureLists ==
    UNION {[1..n -> {Line(status, coordinates) : status \in Statuses, coordinates \in CableShapes}] :
              n \in 0..MaxCables}

\* The view once the flood list (one folder) has loaded and the payload of its
\* timestep has been applied, whatever cables that payload holds: the particle
\* effect has run, nothing is in flight.
InitFlow ==
    /\ isPlaying = FALSE
    /\ currentTimestep = 0
    /\ playInterval = NoInterval
    /\ availableTimesteps = FloodSeq(1)
    /\ mounted = TRUE
    /\ activeTimers = {}
    /\ timerLen = [id \in TimerIds |-> 0]
    /\ nextTimerId = 1
    /\ clearCalls = [id \in TimerIds |-> 0]
    /\ rootCurrentTimestep = FloodEntry(0)
    /\ rootIsElem = TRUE
    /\ inflight = <<>>
    /\ infrastructureData = TimePayload(InfrastructureTimeStr(FloodEntry(0).time))
    /\ appliedStale = FALSE
    /\ lastOp = "respond"
    /\ wasPlaying = FALSE
    /\ emitted = 0
    /\ issued = 0
    /\ animationFrame = 0
    /\ animationInterval = TRUE
    /\ layerVisibility = [power |-> TRUE]
    /\ hierarchicalPowerCables \in {NoCables} \cup {PowerCables(f) : f \in FeatureLists}
    /\ powerParticles = ParticleEffect(hierarchicalPowerCables, layerVisibility)

\* The flow engine on an applied payload, while the power layer is switched.
NextFlow == \E isVisible \in BOOLEAN : HandleVisibilityChange(isVisible)

SpecFlow == InitFlow /\ [][NextFlow]_vars

\* The view with its power layer: selections change the timestep, fetches answer,
\* the layer is switched, frames pass.
NextPower ==
    \/ ClickDot
    \/ RespondAny
    \/ \E isVisible \in BOOLEAN : HandleVisibilityChange(isVisible)
    \/ AnimateFirst

SpecPower == Init /\ [][NextPower]_vars

\* The animation loop through its whole cycle, while the first fetches answer.
NextAnimation == Animate \/ RespondAny

SpecAnimation == Init /\ [][NextAnimation]_vars

(* ------------------------------- claims -------------------------------- *)

\* C1. In every reachable state the effective sequence is non-empty and the
\* current index lies within it: 0 <= index < length.
C1_IndexInRange ==
    /\ Len(Timesteps(availableTimesteps)) > 0
    /\ HasEntry(availableTimesteps, currentTimestep)

\* C2. The controller starts Idle; the play/pause toggle taken while Idle leads
\* to Playing and starts a new interval, taken while Playing it leads to Idle,
\* drops the handle and stops that interval; nothing but the toggle and a
\* selection changes the play state.
C2_ToggleStateMachine ==
    /\ ~isPlaying
    /\ [][/\ lastOp' = "handlePlay" /\ ~isPlaying =>
               /\ isPlaying'
               /\ playInterval' # NoInterval
               /\ playInterval' \notin activeTimers
               /\ activeTimers' = activeTimers \cup {playInterval'}
          /\ lastOp' = "handlePlay" /\ isPlaying =>
               /\ ~isPlaying'
               /\ playInterval' = NoInterval
               /\ activeTimers' = activeTimers \ {playInterval}
          /\ isPlaying' # isPlaying => lastOp' \in {"handlePlay", "click"}]_vars

\* C2 witness: the toggle has just paused a running playback.
C2_Witness ==
    /\ lastOp = "handlePlay"
    /\ wasPlaying
    /\ ~isPlaying
    /\ activeTimers = {}

\* C3. Each timer tick sets the index to (index + 1) mod the length of the
\* current timestep sequence.
C3_TickUsesCurrentLength ==
    [][lastOp' = "tick" /\ mounted =>
          currentTimestep' = (currentTimestep + 1) % Len(Timesteps(availableTimesteps))]_vars

\* C4. A selection of an index i within the sequence makes the current entry the
\* i-th entry; taken while Playing it leaves the controller Idle with its
\* interval stopped and its handle dropped, taken while Idle it leaves it Idle
\* and the timers as they were.
C4_SelectIndex ==
    [][\A i \in 0..(Len(Timesteps(availableTimesteps)) - 1) :
          HandleTimestepClick(i) =>
             /\ HasEntry(availableTimesteps', currentTimestep')
             /\ EntryAt(availableTimesteps', currentTimestep') = EntryAt(availableTimesteps, i)
             /\ ~isPlaying'
             /\ isPlaying => playInterval' = NoInterval /\ activeTimers' = activeTimers \ {playInterval}
             /\ ~isPlaying => playInterval' = playInterval /\ activeTimers' = activeTimers]_vars

\* C4 witness: a selection of the second entry has just paused a running playback.
C4_Witness ==
    /\ lastOp = "click"
    /\ wasPlaying
    /\ ~isPlaying
    /\ currentTimestep = 1
    /\ activeTimers = {}

\* C5. Whenever the current index changes, the listener is called and ends up
\* holding the Timestep at the new index of the current sequence.
C5_NotifiedOnIndexChange ==
    [][currentTimestep' # currentTimestep =>
          /\ emitted' > 0
          /\ HasEntry(availableTimesteps', currentTimestep')
          /\ rootCurrentTimestep' = EntryAt(availableTimesteps', currentTimestep')]_vars

\* The Timestep the controller shows, if the index has one.
CurrentEntry ==
    IF HasEntry(availableTimesteps, currentTimestep)
    THEN EntryAt(availableTimesteps, currentTimestep)
    ELSE NoTimestep

\* C6. A step starts exactly one infrastructure fetch when it changes the
\* controller's current Timestep, and none when it does not.
C6_OneFetchPerChange ==
    [][issued' = IF CurrentEntry' # CurrentEntry THEN 1 ELSE 0]_vars

\* C7. Whenever a call receives a payload while the view is mounted, that
\* payload becomes the applied infrastructure data, whether or not a call issued
\* later has already applied its own.
C7_LastCompletedApplied ==
    [][\A k \in 1..Len(inflight), outcome \in Outcomes :
          Respond(k, outcome) /\ mounted =>
             /\ AfterResponse(inflight[k].stage, outcome) = "applyTime" =>
                   infrastructureData' = TimePayload(inflight[k].time)
             /\ AfterResponse(inflight[k].stage, outcome) = "applyBase" =>
                   infrastructureData' = BasePayload]_vars

\* C7 witness: the payload of an overtaken call for one timestep is applied,
\* nothing is in flight, and Root's current timestep is another one.
C7_Witness ==
    /\ mounted
    /\ appliedStale
    /\ infrastructureData.kind = "ts"
    /\ inflight = <<>>
    /\ rootCurrentTimestep # NoTimestep
    /\ infrastructureData.time # InfrastructureTimeStr(rootCurrentTimestep.time)

\* C8. Right after the sequence is replaced by a non-empty one the current index is 0.
C8_ResetOnReplace ==
    lastOp = "setTimesteps" /\ Len(availableTimesteps) > 0 => currentTimestep = 0

\* C8 witness: a running playback, at an index other than 0 that the new
\* sequence also has (so the notify effect fired before and after the reset),
\* has just been given a non-empty sequence.
C8_Witness ==
    /\ lastOp = "setTimesteps"
    /\ Len(availableTimesteps) > 0
    /\ isPlaying
    /\ emitted = 2
    /\ currentTimestep = 0

\* C9. A selection of an index outside the sequence changes neither the index,
\* nor the play state, nor the timer, and emits nothing.
C9_InvalidSelectionRejected ==
    [][HandleTimestepClick(Len(Timesteps(availableTimesteps))) =>
          /\ UNCHANGED <<currentTimestep, isPlaying, playInterval, activeTimers>>
          /\ emitted' = 0]_vars

\* C10. Every interval the controller started and no longer runs was named by
\* exactly one clearInterval call, and a running one by none.
C10_ClearedExactlyOnce ==
    \A id \in TimerIds :
        /\ id < nextTimerId /\ id \notin activeTimers => clearCalls[id] = 1
        /\ id \in activeTimers => clearCalls[id] = 0

\* C11. Once the view is torn down neither the controller's advance interval
\* nor Root's animation interval is running, and no step of either follows,
\* whatever the play state was at teardown.
C11_NoTimerAfterTeardown ==
    /\ [](~mounted => activeTimers = {} /\ ~animationInterval)
    /\ [][~mounted => lastOp' \notin {"tick", "animate"}]_vars

\* C11 witness: the view was torn down while Playing, after both intervals had fired.
C11_Witness ==
    /\ ~mounted
    /\ lastOp = "unmount"
    /\ isPlaying
    /\ playInterval # NoInterval
    /\ animationFrame > 0
    /\ activeTimers = {}
    /\ ~animationInterval

\* C12. When the fetch of the time-indexed payload fails (a non-OK response or
\* a throw) the call goes on to fetch the base payload and the applied data
\* stays as it is meanwhile; when that base fetch succeeds the base payload is
\* applied; when it fails as well (a non-OK response or a throw) the applied
\* data is left unchanged; no answer stops the animation interval or playback.
C12_FallbackOnFailure ==
    [][\A k \in 1..Len(inflight), outcome \in Outcomes :
          Respond(k, outcome) /\ mounted =>
             /\ inflight[k].stage = "ts" /\ outcome \in {"notOk", "throw"} =>
                   /\ Len(inflight') = Len(inflight)
                   /\ inflight'[k].stage \in {"base1", "base2"}
                   /\ infrastructureData' = infrastructureData
             /\ inflight[k].stage \in {"base1", "base2"} /\ outcome = "ok" =>
                   infrastructureData' = BasePayload
             /\ inflight[k].stage \in {"base1", "base2"} /\ outcome \in {"notOk", "throw"} =>
                   infrastructureData' = infrastructureData
             /\ UNCHANGED <<isPlaying, playInterval, activeTimers, animationInterval>>]_vars

\* C18. While the controller is mounted at most one advance interval runs, one
\* runs exactly when the controller is Playing, and it is the one whose handle
\* the controller holds; the index never advances by a tick while Idle.
C18_TimerIffPlaying ==
    /\ [](mounted =>
            /\ Cardinality(activeTimers) <= 1
            /\ activeTimers # {} <=> isPlaying
            /\ isPlaying => activeTimers = {playInterval})
    /\ [][mounted /\ ~isPlaying => lastOp' # "tick"]_vars

\* C18 witness: a first playback was stopped, a second one runs and has ticked.
C18_Witness ==
    /\ mounted
    /\ isPlaying
    /\ lastOp = "tick"
    /\ playInterval = MaxTimers
    /\ activeTimers = {MaxTimers}
    /\ clearCalls[1] > 0

\* C13. Whatever cables (operational, warning or down) a payload holds and in
\* whatever order, every junction's aggregate status is the worst status among
\* the cable points with its key (down over warning over operational), and its
\* colour is that status's colour.
C13_WorstStatusAnyOrder ==
    hierarchicalPowerCables.present =>
       LET features == hierarchicalPowerCables.features
           junctions == JunctionPoints(hierarchicalPowerCables)
           severity == [status \in Statuses |->
                           CASE status = "down" -> 2 [] status = "warning" -> 1 [] OTHER -> 0]
           touching(key) == {i \in 1..Len(features) :
                               \E k \in 1..Len(features[i].coordinates) :
                                   JunctionKey(features[i].coordinates[k]) = key}
       IN \A j \in 1..Len(junctions) :
             /\ touching(junctions[j].key) # {}
             /\ \E i \in touching(junctions[j].key) : features[i].status = junctions[j].status
             /\ \A i \in touching(junctions[j].key) :
                   severity[features[i].status] <= severity[junctions[j].status]
             /\ junctions[j].color = getStatusColor(junctions[j].status)

\* C13 witness: three cables meet at one point with statuses operational,
\* warning, operational, and at the render after a layer switch the junction is in warning.
C13_Witness ==
    /\ lastOp = "visibility"
    /\ hierarchicalPowerCables =
          PowerCables(<<Line("operational", <<CoordA>>), Line("warning", <<CoordA>>),
                        Line("operational", <<CoordA>>)>>)
    /\ Len(JunctionPoints(hierarchicalPowerCables)) = 1
    /\ JunctionPoints(hierarchicalPowerCables)[1].status = "warning"
    /\ JunctionPoints(hierarchicalPowerCables)[1].count = 3

C15_ParticlesPerCoordinateSegment ==
    hierarchicalPowerCables.present /\ layerVisibility.power =>
       LET features == hierarchicalPowerCables.features
           ofLine(i) == {k \in 1..Len(powerParticles) : powerParticles[k].lineIndex = i - 1}
           n(i) == Len(features[i].coordinates)
       IN \A i \in 1..Len(features) :
             Cardinality(ofLine(i)) =
                IF features[i].status = "down" \/ n(i) < 2 THEN 0
                ELSE (n(i) - 1) * ParticlesPerSegment

\* C15 as amended. With the power layer shown, a down cable has no particle and
\* any other cable has ParticlesPerSegment particles on every segment of its arc
\* path, which has 2 n - 1 points for n >= 2 coordinate points: 2 * (n - 1) * 3
\* particles, none when n < 2; every particle belongs to a cable of the payload.
C15_ParticlesPerArcSegment ==
    hierarchicalPowerCables.present /\ layerVisibility.power =>
       LET features == hierarchicalPowerCables.features
           ofLine(i) == {k \in 1..Len(powerParticles) : powerParticles[k].lineIndex = i - 1}
           n(i) == Len(features[i].coordinates)
           onSegment(i, seg) == {k \in ofLine(i) : powerParticles[k].segmentIndex = seg}
       IN /\ \A i \in 1..Len(features) :
                /\ Cardinality(ofLine(i)) =
                      IF features[i].status = "down" \/ n(i) < 2 THEN 0
                      ELSE 2 * (n(i) - 1) * ParticlesPerSegment
                /\ features[i].status # "down" /\ n(i) >= 2 =>
                      \A seg \in 0..(2 * (n(i) - 1) - 1) :
                         Cardinality(onSegment(i, seg)) = ParticlesPerSegment
          /\ \A k \in 1..Len(powerParticles) :
                powerParticles[k].lineIndex \in 0..(Len(features) - 1)

\* C15 witness: the layer has just been switched on over a down cable, a
\* one-point cable and a three-point cable in warning, which alone has particles.
C15_Witness ==
    /\ lastOp = "visibility"
    /\ layerVisibility.power
    /\ hierarchicalPowerCables =
          PowerCables(<<Line("down", <<CoordA, CoordB>>), Line("operational", <<CoordA>>),
                        Line("warning", <<CoordA, CoordA2, CoordA>>)>>)
    /\ Len(powerParticles) = 12
    /\ \A k \in 1..Len(powerParticles) : powerParticles[k].lineIndex = 2

\* C16. The particle set is determined by the applied cables and the power flag:
\* in every state it is empty when the layer is hidden or no cables are loaded
\* and generateParticles of the applied payload's cables otherwise; a step that
\* changes the animation frame or the timestep index, and neither the cables nor
\* the flag, leaves it as it is.
C16_ParticlesFollowCablesAndFlag ==
    /\ [](/\ hierarchicalPowerCables =
                IF infrastructureData = NoData THEN NoCables
                ELSE PayloadCables(infrastructureData)
          /\ powerParticles =
                IF hierarchicalPowerCables.present /\ layerVisibility.power
                THEN generateParticles(hierarchicalPowerCables)
                ELSE <<>>)
    /\ [][/\ animationFrame' # animationFrame \/ currentTimestep' # currentTimestep
          /\ hierarchicalPowerCables' = hierarchicalPowerCables
          /\ layerVisibility' = layerVisibility
          => powerParticles' = powerParticles]_vars

\* C16 witness: a timestep's payload was applied while the layer was hidden (no
\* particles), frames passed, and the layer has just been switched on again: the
\* particles of that payload are there.
C16_Witness ==
    /\ lastOp = "visibility"
    /\ layerVisibility.power
    /\ animationFrame > 0
    /\ infrastructureData.kind = "ts"
    /\ Len(powerParticles) = 2 * 2 * ParticlesPerSegment

====
